---- MODULE Spec2Model ----
(***************************************************************************)
(* Model of the tools repository: the name transformer                     *)
(* (src/src/utils/tool-names.ts, toKebabCase) and the page generator       *)
(* (src/scripts/generate-pages.ts).                                        *)
(*                                                                         *)
(* A JavaScript string is modelled as a sequence of one-character strings, *)
(* so that the regex replacement, the lowercasing and the slicing are      *)
(* computed character by character as the code computes them.              *)
(***************************************************************************)
EXTENDS Integers, Sequences, FiniteSets, Bags, TLC

(***************************************************************************)
(* Characters and JavaScript string primitives                             *)
(***************************************************************************)
UpperLetters ==
  <<"A","B","C","D","E","F","G","H","I","J","K","L","M",
    "N","O","P","Q","R","S","T","U","V","W","X","Y","Z">>

LowerLetters ==
  <<"a","b","c","d","e","f","g","h","i","j","k","l","m",
    "n","o","p","q","r","s","t","u","v","w","x","y","z">>

\* the character class [A-Z] of the regular expression
UpperSet == {UpperLetters[i] : i \in 1..Len(UpperLetters)}

IsUpper(c) == c \in UpperSet

\* the lowercase letter of every uppercase letter
LowerOf ==
  [c \in UpperSet |->
     LowerLetters[CHOOSE i \in 1..Len(UpperLetters) : UpperLetters[i] = c]]

toLowerCaseChar(c) == IF IsUpper(c) THEN LowerOf[c] ELSE c

\* String.prototype.toLowerCase
toLowerCase(s) == [i \in 1..Len(s) |-> toLowerCaseChar(s[i])]

\* s.replace(/([A-Z])/g, sep + "$1"): every uppercase letter, the first one
\* included, gets sep in front of it
RECURSIVE replaceUpper(_, _)
replaceUpper(s, sep) ==
  IF s = <<>> THEN <<>>
  ELSE (IF IsUpper(Head(s)) THEN <<sep, Head(s)>> ELSE <<Head(s)>>)
         \o replaceUpper(Tail(s), sep)

\* s.slice(1): drops the first character, whatever it is
slice1(s) == IF s = <<>> THEN <<>> ELSE Tail(s)

\* toKebabCase with a fault: the result is not lowercased
toKebabCaseNoLower(componentName) == slice1(replaceUpper(componentName, "-"))

\* toKebabCase with a fault: a run of uppercase letters is kept as one
\* segment, a hyphen going only before an uppercase letter that follows a
\* character that is not uppercase
toKebabCaseAcronym(componentName) ==
  LET hyphenated[i \in 0..Len(componentName)] ==
        IF i = 0 THEN <<>>
        ELSE hyphenated[i - 1] \o
             (IF /\ i > 1
                 /\ IsUpper(componentName[i])
                 /\ ~IsUpper(componentName[i - 1])
                THEN <<"-", componentName[i]>>
                ELSE <<componentName[i]>>)
  IN  toLowerCase(hyphenated[Len(componentName)])

\* toKebabCase with a fault: the leading separator is not dropped
toKebabCaseNoSlice(componentName) ==
  toLowerCase(replaceUpper(componentName, "-"))

\* tool-names.ts, toKebabCase
toKebabCase(componentName) ==
  slice1(toLowerCase(replaceUpper(componentName, "-")))

\* s.trim(), for the one whitespace character that can occur here
RECURSIVE trimStart(_)
trimStart(s) ==
  IF s # <<>> /\ Head(s) = " " THEN trimStart(Tail(s)) ELSE s

RECURSIVE trimEnd(_)
trimEnd(s) ==
  IF s # <<>> /\ s[Len(s)] = " "
    THEN trimEnd(SubSeq(s, 1, Len(s) - 1))
    ELSE s

trim(s) == trimEnd(trimStart(s))

\* toTitleCase with a fault: the result is not trimmed
toTitleCaseNoTrim(componentName) == replaceUpper(componentName, " ")

\* tool-names.ts, toTitleCase
toTitleCase(componentName) == trim(replaceUpper(componentName, " "))

\* s.endsWith(suffix)
endsWith(s, suffix) ==
  /\ Len(s) >= Len(suffix)
  /\ SubSeq(s, Len(s) - Len(suffix) + 1, Len(s)) = suffix

\* s.includes(pat) at position i
occursAt(s, pat, i) ==
  /\ i + Len(pat) - 1 <= Len(s)
  /\ SubSeq(s, i, i + Len(pat) - 1) = pat

\* s.replace(pat, "") with a string pattern: only the FIRST occurrence of pat
\* is removed; s is returned unchanged when pat does not occur
removeFirst(s, pat) ==
  IF \E i \in 1..Len(s) : occursAt(s, pat, i)
    THEN LET i == CHOOSE k \in 1..Len(s) :
                    /\ occursAt(s, pat, k)
                    /\ \A j \in 1..(k - 1) : ~occursAt(s, pat, j)
         IN  SubSeq(s, 1, i - 1) \o SubSeq(s, i + Len(pat), Len(s))
    ELSE s

(***************************************************************************)
(* File names and file contents of the page generator                      *)
(***************************************************************************)
DotTsx == <<".","t","s","x">>
DotAstro == <<".","a","s","t","r","o">>

\* the entries a tools directory may hold: an ordinary PascalCase widget, two
\* widgets whose name starts with a lowercase letter, a widget whose name has
\* ".tsx" in the middle of it, and an entry that is no widget
AbCdTsx == <<"A","b","C","d">> \o DotTsx
aBTsx == <<"a","B">> \o DotTsx
bBTsx == <<"b","B">> \o DotTsx
ATsxBTsx == <<"A">> \o DotTsx \o <<"B">> \o DotTsx
EfTsxBak == <<"E","f">> \o DotTsx \o <<".","b","a","k">>

DirEntries == {AbCdTsx, aBTsx, bBTsx, ATsxBTsx, EfTsxBak}

\* the number of entries of the tools directory
MaxFiles == 3

RECURSIVE Listings(_)
\* the directory listings of at most n distinct entries, in any order
Listings(n) ==
  IF n = 0 THEN {<<>>}
  ELSE LET shorter == Listings(n - 1)
       IN  shorter \cup
           {Append(l, e) : l \in {x \in shorter : Len(x) = n - 1},
                           e \in DirEntries}

NoRepeat(l) == \A i, j \in 1..Len(l) : i # j => l[i] # l[j]

\* files already in the pages directory before the first run: a stale page
\* of a widget that no longer exists, and a page at the path of a current
\* widget with other content
StalePath == <<"o","l","d">> \o DotAstro
StaleContent == <<"stale page">>
EditedPath == <<"a","b","-","c","d">> \o DotAstro
EditedContent == <<"hand-edited page">>

(***************************************************************************)
(* State                                                                   *)
(***************************************************************************)
VARIABLES
  \* name transformer: two identifiers and the slugs computed for them, the
  \* title computed for the first one
  nameA, nameB, slugA, slugB, npc, titleA, tpc,
  \* page generator: the two directories and the running script
  toolsDir,      \* src/tools: the entries in the order readdirSync lists them
  pagesDir,      \* src/pages: a function from file name to file content
  status,        \* "idle", "running", "done" or "aborted"
  files,         \* the const files of the script
  idx,           \* the position of the for loop in files
  console,       \* the lines written by console.log in this run
  exitCode,      \* the exit status of the last run, -1 while there is none
  \* history of the runs, kept to state the properties
  fault,         \* the filesystem call that threw in this run, or "none"
  written,       \* the writeFileSync calls of this run that returned
  pagesAtStart,  \* pagesDir when this run started
  sinceOk,       \* what happened to pagesDir since the last completed run
  basis,         \* sinceOk when this run started
  lastOut,       \* pagesDir when the last completed run finished
  prevOut,       \* lastOut when this run started
  runs,          \* the number of runs started
  \* image cropper: the state of the ImageCropper component and the loads
  \* started by loadImage that have not completed
  image,         \* the displayed image as [width, height], or null
  crop,          \* the crop square [x, y, size] in image pixels
  isDragging,    \* whether a drag of the crop square is under way
  dragStart,     \* where in the crop square the drag took hold, canvas pixels
  reading,       \* the files whose FileReader has not called onload: a bag
  decoding,      \* the images whose onload has not been called: a bag
  \* einops visualizer: the state of the EinopsViz component
  pyodide,       \* whether the Python environment is set (not null)
  loading,       \* whether the environment is still being loaded
  operation,     \* "rearrange", "repeat", "reduce" or "einsum"
  inputShape,    \* the text of the first shape field
  inputShape2,   \* the text of the second shape field
  params,        \* the text of the parameters field
  result,        \* what the last successful run returned, or null
  error,         \* the error message shown, "" for none
  running,       \* whether a run is under way
  call,          \* the runPythonAsync call awaited by runOperation, if any
  \* FLOPs calculator: the state of TransformerFlopsCalculator
  config,        \* the six fields of the model configuration
  flopsResult,   \* its state result: the breakdown shown
  edits,         \* the number of updateConfig calls so far
  \* tax calculator: one call of calculateTax
  income,        \* the argument
  taxResult,     \* the record returned
  taxpc          \* "input" before the call, "done" after it

nameVars == <<nameA, nameB, slugA, slugB, npc, titleA, tpc>>
genVars == <<toolsDir, pagesDir, status, files, idx, console, exitCode,
             fault, written, pagesAtStart, sinceOk, basis, lastOut, prevOut,
             runs>>
cropVars == <<image, crop, isDragging, dragStart, reading, decoding>>
einVars == <<pyodide, loading, operation, inputShape, inputShape2, params,
             result, error, running, call>>
flopVars == <<config, flopsResult, edits>>
taxVars == <<income, taxResult, taxpc>>
widgetVars == <<einVars, flopVars, taxVars>>
vars == <<nameVars, genVars, cropVars, widgetVars>>

\* the number of runs of the script in one behaviour
MaxRuns == 2

\* the longest prefix of the content a failed writeFileSync may leave behind
MaxPartial == 0

(***************************************************************************)
(* generate-pages.ts                                                       *)
(***************************************************************************)
\* readdirSync(toolsDir).filter((file) => file.endsWith(".tsx"))
filterTsx(listing) == SelectSeq(listing, LAMBDA file : endsWith(file, DotTsx))

\* const componentName = file.replace(".tsx", "")
componentNameOf(file) == removeFirst(file, DotTsx)

\* const pageName = componentName.replace(/([A-Z])/g, "-$1").toLowerCase().slice(1)
pageNameOf(componentName) ==
  slice1(toLowerCase(replaceUpper(componentName, "-")))

\* the template literal pageContent: the fixed text in whole pieces, the
\* interpolated componentName character by character
pageContentOf(componentName) ==
  <<"---\nimport Layout from \"@/layouts/Layout.astro\";\nimport ">>
    \o componentName \o <<" from \"@/tools/">>
    \o componentName \o <<"\";\n---\n\n<Layout>\n\t<">>
    \o componentName \o <<" client:load />\n</Layout>\n">>

\* join(pagesDir, `${pageName}.astro`), relative to the pages directory
pagePathOf(pageName) == pageName \o DotAstro

\* the path the page of a directory entry is written to
pathOfFile(file) == pagePathOf(pageNameOf(componentNameOf(file)))

\* console.log(`Generated ${pageName}.astro`) and
\* console.log(`Generated ${files.length} pages`)
noticeOf(pageName) == [kind |-> "notice", file |-> pagePathOf(pageName)]
summaryOf(n) == [kind |-> "summary", count |-> n]

\* writeFile with a fault: appends to a file that exists
writeFileAppend(dir, path, content) ==
  [p \in DOMAIN dir \cup {path} |->
     IF p = path
       THEN (IF path \in DOMAIN dir THEN dir[path] \o content ELSE content)
       ELSE dir[p]]

\* writeFile with a fault: does not replace a file that exists
writeFileNoClobber(dir, path, content) ==
  [p \in DOMAIN dir \cup {path} |->
     IF p = path /\ path \notin DOMAIN dir THEN content ELSE dir[p]]

\* writeFile with a fault: the pages directory is emptied before the write
writeFileFresh(dir, path, content) == [p \in {path} |-> content]

\* writeFile with a fault: only a file that exists is written
writeFileExisting(dir, path, content) ==
  [p \in DOMAIN dir |-> IF p = path THEN content ELSE dir[p]]

\* writeFileSync(path, content) returning: the file is created or replaced
writeFile(dir, path, content) ==
  [p \in DOMAIN dir \cup {path} |-> IF p = path THEN content ELSE dir[p]]

\* unlink of a set of files (done by hand, between runs)
removeFiles(dir, paths) == [p \in DOMAIN dir \ paths |-> dir[p]]

\* the pages directory after a writeFileSync(path, content) that threw: the
\* open failed and nothing changed, or the file was opened (created or
\* truncated) and the write failed after n characters
writeFileThrown(dir, path, content) ==
  {dir} \cup {writeFile(dir, path, SubSeq(content, 1, n)) : n \in 0..MaxPartial}

EmptyDir == [p \in {} |-> <<>>]

PreExistingDir ==
  [p \in {StalePath, EditedPath} |->
     IF p = StalePath THEN StaleContent ELSE EditedContent]

\* the longer side of the canvas, in pixels
CanvasMax == 600
\* the size of the crop square before any image is loaded
InitialCropSize == 300
\* useState(null): no image; a record so that width and height can be read
null == [width |-> 0, height |-> 0]

\* the state of the ImageCropper component when it is mounted, which is also
\* its state while the generator or the name transformer is checked
CropIdle ==
  /\ image = null
  /\ crop = [x |-> 0, y |-> 0, size |-> InitialCropSize]
  /\ isDragging = FALSE
  /\ dragStart = [x |-> 0, y |-> 0]
  /\ reading = EmptyBag
  /\ decoding = EmptyBag

\* the state of the einops visualizer while another part is checked
EinIdle ==
  /\ pyodide = FALSE /\ loading = FALSE /\ operation = "unused"
  /\ inputShape = <<>> /\ inputShape2 = <<>> /\ params = <<>>
  /\ result = <<>> /\ error = "" /\ running = FALSE /\ call = <<>>

\* the state of the FLOPs calculator while another part is checked
FlopsIdle == config = <<>> /\ flopsResult = <<>> /\ edits = 0

\* the state of the tax calculator while another part is checked
TaxIdle == income = <<>> /\ taxResult = <<>> /\ taxpc = "unused"

\* the state of the name transformer while the generator is checked
NamesIdle ==
  /\ nameA = <<>> /\ nameB = <<>> /\ slugA = <<>> /\ slugB = <<>>
  /\ npc = "unused" /\ titleA = <<>> /\ tpc = "unused"

Init ==
  /\ NamesIdle
  /\ CropIdle
  /\ EinIdle
  /\ FlopsIdle
  /\ TaxIdle
  /\ toolsDir \in {l \in Listings(MaxFiles) : NoRepeat(l)}
  /\ pagesDir \in {EmptyDir, PreExistingDir}
  /\ status = "idle"
  /\ files = <<>>
  /\ idx = 1
  /\ console = <<>>
  /\ exitCode = -1
  /\ fault = "none"
  /\ written = <<>>
  /\ pagesAtStart = pagesDir
  /\ sinceOk = "never"
  /\ basis = "never"
  /\ lastOut = EmptyDir
  /\ prevOut = EmptyDir
  /\ runs = 0

\* a new process may start when none is running
CanStart == status \in {"idle", "done", "aborted"} /\ runs < MaxRuns

StartHistory ==
  /\ runs' = runs + 1
  /\ pagesAtStart' = pagesDir
  /\ basis' = sinceOk
  /\ prevOut' = lastOut
  /\ written' = <<>>

\* line 7, readdirSync returns: files is the filtered listing
ReadDir ==
  /\ CanStart
  /\ files' = filterTsx(toolsDir)
  /\ idx' = 1
  /\ console' = <<>>
  /\ status' = "running"
  /\ exitCode' = -1
  /\ fault' = "none"
  /\ StartHistory
  /\ UNCHANGED <<nameVars, cropVars, widgetVars, toolsDir, pagesDir, sinceOk, lastOut>>

\* the pages directory is no longer as the last completed run left it
Spoiled == IF sinceOk = "never" THEN "never" ELSE "failed"

\* ReadDirThrows with a fault: the exception is caught and the listing taken
\* to be empty
ReadDirCaught ==
  /\ CanStart
  /\ files' = <<>>
  /\ idx' = 1
  /\ console' = <<summaryOf(0)>>
  /\ status' = "done"
  /\ exitCode' = 0
  /\ fault' = "readdir"
  /\ StartHistory
  /\ UNCHANGED <<nameVars, cropVars, widgetVars, toolsDir, pagesDir, sinceOk, lastOut>>

\* line 7, readdirSync throws: the exception is not caught, the process ends
ReadDirThrows ==
  /\ CanStart
  /\ files' = <<>>
  /\ idx' = 1
  /\ console' = <<>>
  /\ status' = "aborted"
  /\ exitCode' = 1
  /\ fault' = "readdir"
  /\ StartHistory
  /\ UNCHANGED <<nameVars, cropVars, widgetVars, toolsDir, pagesDir, sinceOk, lastOut>>

\* lines 9-27, one iteration of the loop in which writeFileSync returns
Iterate ==
  /\ status = "running"
  /\ idx <= Len(files)
  /\ LET file == files[idx]
         componentName == componentNameOf(file)
         pageName == pageNameOf(componentName)
         pageContent == pageContentOf(componentName)
     IN  /\ pagesDir' = writeFile(pagesDir, pagePathOf(pageName), pageContent)
         /\ written' = Append(written, pagePathOf(pageName))
         /\ console' = Append(console, noticeOf(pageName))
  /\ idx' = idx + 1
  /\ UNCHANGED <<nameVars, cropVars, widgetVars, toolsDir, status, files, exitCode, fault,
                 pagesAtStart, sinceOk, basis, lastOut, prevOut, runs>>

\* IterateThrows with a fault: the exception is caught and the loop goes on
IterateCaught ==
  /\ status = "running"
  /\ idx <= Len(files)
  /\ pagesDir' \in
       writeFileThrown(pagesDir, pathOfFile(files[idx]),
                       pageContentOf(componentNameOf(files[idx])))
  /\ idx' = idx + 1
  /\ fault' = "write"
  /\ sinceOk' = Spoiled
  /\ UNCHANGED <<nameVars, cropVars, widgetVars, toolsDir, status, files, console, exitCode, written,
                 pagesAtStart, basis, lastOut, prevOut, runs>>

\* lines 9-26, the iteration in which writeFileSync throws: the exception
\* is not caught, the process ends
IterateThrows ==
  /\ status = "running"
  /\ idx <= Len(files)
  /\ LET file == files[idx]
         componentName == componentNameOf(file)
         pageName == pageNameOf(componentName)
         pageContent == pageContentOf(componentName)
     IN  pagesDir' \in
           writeFileThrown(pagesDir, pagePathOf(pageName), pageContent)
  /\ status' = "aborted"
  /\ exitCode' = 1
  /\ fault' = "write"
  /\ sinceOk' = Spoiled
  /\ UNCHANGED <<nameVars, cropVars, widgetVars, toolsDir, files, idx, console, written,
                 pagesAtStart, basis, lastOut, prevOut, runs>>

\* Finish with a fault: the summary counts every entry of the directory
FinishCountsAll ==
  /\ status = "running"
  /\ idx > Len(files)
  /\ console' = Append(console, summaryOf(Len(toolsDir)))
  /\ status' = "done"
  /\ exitCode' = 0
  /\ sinceOk' = "clean"
  /\ lastOut' = pagesDir
  /\ UNCHANGED <<nameVars, cropVars, widgetVars, toolsDir, pagesDir, files, idx, fault, written,
                 pagesAtStart, basis, prevOut, runs>>

\* line 30, after the loop: the summary is logged and the process ends
Finish ==
  /\ status = "running"
  /\ idx > Len(files)
  /\ console' = Append(console, summaryOf(Len(files)))
  /\ status' = "done"
  /\ exitCode' = 0
  /\ sinceOk' = "clean"
  /\ lastOut' = pagesDir
  /\ UNCHANGED <<nameVars, cropVars, widgetVars, toolsDir, pagesDir, files, idx, fault, written,
                 pagesAtStart, basis, prevOut, runs>>

\* the paths the run over the current tools directory writes to
GeneratedPaths == {pathOfFile(files[i]) : i \in 1..Len(files)}

\* between runs: some of the generated pages are deleted by hand
DeleteGenerated ==
  /\ status = "done"
  /\ \E gone \in SUBSET (GeneratedPaths \cap DOMAIN pagesDir) :
       /\ gone # {}
       /\ pagesDir' = removeFiles(pagesDir, gone)
  /\ status' = "idle"
  /\ sinceOk' = "deleted"
  /\ UNCHANGED <<nameVars, cropVars, widgetVars, toolsDir, files, idx, console, exitCode, fault,
                 written, pagesAtStart, basis, lastOut, prevOut, runs>>

Next ==
  \/ ReadDir
  \/ ReadDirThrows
  \/ Iterate
  \/ IterateThrows
  \/ Finish
  \/ DeleteGenerated

Spec == Init /\ [][Next]_vars

(***************************************************************************)
(* The name transformer applied to bounded inputs                          *)
(***************************************************************************)
\* the characters identifiers are drawn from, and their greatest length
IdChars == {"A", "a", "b", "1"}
MaxIdLen == 3

RECURSIVE Strings(_)
\* the strings over IdChars of length at most n
Strings(n) ==
  IF n = 0 THEN {<<>>}
  ELSE LET shorter == Strings(n - 1)
       IN  shorter \cup
           {Append(x, c) : x \in {y \in shorter : Len(y) = n - 1},
                           c \in IdChars}

\* the component names of the README and of the repository's own tools
SgTaxCalculator ==
  <<"S","g","T","a","x","C","a","l","c","u","l","a","t","o","r">>
CircleImageCropper ==
  <<"C","i","r","c","l","e","I","m","a","g","e","C","r","o","p","p","e","r">>
EinopsViz == <<"E","i","n","o","p","s","V","i","z">>
MyNewTool == <<"M","y","N","e","w","T","o","o","l">>

HTTPClient == <<"H","T","T","P","C","l","i","e","n","t">>

Identifiers ==
  Strings(MaxIdLen)
    \cup {SgTaxCalculator, CircleImageCropper, EinopsViz, MyNewTool,
          HTTPClient}

\* strings that are no identifiers: with a hyphen, a space, a dot
OtherStrings ==
  {<<"A","-","b">>, <<"a"," ","B">>, <<" ","A"," ">>, <<"-">>,
   <<"A","B",".","t","s","x">>}

NameInputs == Identifiers \cup OtherStrings

\* the state of the page generator while the name transformer is checked
GenIdle ==
  /\ toolsDir = <<>> /\ pagesDir = EmptyDir /\ status = "unused"
  /\ files = <<>> /\ idx = 1 /\ console = <<>> /\ exitCode = -1
  /\ fault = "none" /\ written = <<>> /\ pagesAtStart = EmptyDir
  /\ sinceOk = "never" /\ basis = "never"
  /\ lastOut = EmptyDir /\ prevOut = EmptyDir /\ runs = 0

InitNames ==
  /\ GenIdle
  /\ CropIdle
  /\ EinIdle
  /\ FlopsIdle
  /\ TaxIdle
  /\ nameA \in NameInputs
  /\ nameB \in NameInputs
  /\ slugA = <<>>
  /\ slugB = <<>>
  /\ npc = "input"
  /\ titleA = <<>>
  /\ tpc = "input"

\* toKebabCase is called on each of the two identifiers
ApplyToSlug ==
  /\ npc = "input"
  /\ slugA' = toKebabCase(nameA)
  /\ slugB' = toKebabCase(nameB)
  /\ npc' = "slugged"
  /\ UNCHANGED <<nameA, nameB, titleA, tpc, genVars, cropVars, widgetVars>>

\* toTitleCase is called on the first identifier
ApplyToTitle ==
  /\ tpc = "input"
  /\ titleA' = toTitleCase(nameA)
  /\ tpc' = "titled"
  /\ UNCHANGED <<nameA, nameB, slugA, slugB, npc, genVars, cropVars, widgetVars>>

NextNames ==
  \/ ApplyToSlug
  \/ ApplyToTitle

SpecNames == InitNames /\ [][NextNames]_vars

(***************************************************************************)
(* Properties of the name transformer (checked under SpecNames)            *)
(***************************************************************************)
Digits == {"0","1","2","3","4","5","6","7","8","9"}
IsLower(c) == \E i \in 1..Len(LowerLetters) : LowerLetters[i] = c
IsLowerOrDigit(c) == IsLower(c) \/ c \in Digits

\* a capitalized word: one uppercase letter, then lowercase letters or digits
IsCapitalizedWord(w) ==
  /\ w # <<>>
  /\ IsUpper(w[1])
  /\ \A i \in 2..Len(w) : IsLowerOrDigit(w[i])

\* the words of an identifier: a new word starts at every uppercase letter
RECURSIVE SplitWords(_)
SplitWords(s) ==
  IF s = <<>> THEN <<>>
  ELSE LET c == s[Len(s)]
           ws == SplitWords(SubSeq(s, 1, Len(s) - 1))
       IN  IF IsUpper(c) \/ ws = <<>>
             THEN Append(ws, <<c>>)
             ELSE [ws EXCEPT ![Len(ws)] = Append(@, c)]

\* W = w0 w1 ... wn with every wi a capitalized word
IsPascalCase(s) ==
  /\ s # <<>>
  /\ \A i \in 1..Len(SplitWords(s)) : IsCapitalizedWord(SplitWords(s)[i])

\* lower(w0) + "-" + lower(w1) + ... + "-" + lower(wn)
RECURSIVE JoinLower(_)
JoinLower(ws) ==
  IF ws = <<>> THEN <<>>
  ELSE IF Len(ws) = 1 THEN toLowerCase(ws[1])
  ELSE toLowerCase(ws[1]) \o <<"-">> \o JoinLower(Tail(ws))

\* C1: the slug of a concatenation of capitalized words w0 ... wn is
\* lower(w0)-lower(w1)-...-lower(wn); in particular SgTaxCalculator gives
\* sg-tax-calculator, CircleImageCropper circle-image-cropper, EinopsViz
\* einops-viz and MyNewTool my-new-tool.
C1_SlugOfPascalCase ==
  npc = "slugged" =>
    /\ IsPascalCase(nameA) => slugA = JoinLower(SplitWords(nameA))
    /\ nameA = SgTaxCalculator =>
         slugA = <<"s","g","-","t","a","x","-",
                   "c","a","l","c","u","l","a","t","o","r">>
    /\ nameA = CircleImageCropper =>
         slugA = <<"c","i","r","c","l","e","-","i","m","a","g","e","-",
                   "c","r","o","p","p","e","r">>
    /\ nameA = EinopsViz =>
         slugA = <<"e","i","n","o","p","s","-","v","i","z">>
    /\ nameA = MyNewTool =>
         slugA = <<"m","y","-","n","e","w","-","t","o","o","l">>

\* a two-word identifier of the bounded set has been slugged
C1_Witness ==
  /\ npc = "slugged"
  /\ nameA = <<"A","a","A">>
  /\ IsPascalCase(nameA)
  /\ Len(SplitWords(nameA)) = 2
  /\ slugA = <<"a","a","-","a">>

\* a string of letters and digits, the identifier format of the data model
IsIdentifier(s) ==
  /\ s # <<>>
  /\ \A i \in 1..Len(s) : IsUpper(s[i]) \/ IsLowerOrDigit(s[i])

\* C2: two distinct identifiers (strings of letters and digits) never have
\* the same slug.
C2_DistinctSlugs ==
  (/\ npc = "slugged"
   /\ IsIdentifier(nameA)
   /\ IsIdentifier(nameB)
   /\ nameA # nameB) => slugA # slugB

\* the number of occurrences of character c in s, and s without them
CountChar(s, c) == Cardinality({i \in 1..Len(s) : s[i] = c})
RemoveChar(s, c) == SelectSeq(s, LAMBDA x : x # c)
CountUpper(s) == Cardinality({i \in 1..Len(s) : IsUpper(s[i])})

\* C11: the slug of a PascalCase identifier of n capitalized words has
\* exactly n - 1 hyphens and no uppercase letter.
C11_HyphensAndCase ==
  (npc = "slugged" /\ IsPascalCase(nameA)) =>
    /\ CountChar(slugA, "-") = Len(SplitWords(nameA)) - 1
    /\ CountUpper(slugA) = 0

\* the slug of a three-word identifier has two hyphens
C11_Witness ==
  /\ npc = "slugged"
  /\ nameA = CircleImageCropper
  /\ Len(SplitWords(nameA)) = 3
  /\ CountChar(slugA, "-") = 2

\* C12: for every identifier W, toTitle(W) with the spaces removed and
\* lowercased is toSlug(W) with the hyphens removed.
C12_TitleMatchesSlug ==
  (npc = "slugged" /\ tpc = "titled" /\ IsIdentifier(nameA)) =>
    toLowerCase(RemoveChar(titleA, " ")) = RemoveChar(slugA, "-")

\* s with sep before every uppercase letter but a first one
RECURSIVE SeparateInternal(_, _)
SeparateInternal(s, sep) ==
  IF Len(s) <= 1 THEN s
  ELSE SeparateInternal(SubSeq(s, 1, Len(s) - 1), sep) \o
       (IF IsUpper(s[Len(s)]) THEN <<sep, s[Len(s)]>> ELSE <<s[Len(s)]>>)

\* w0 + sep + w1 + ... + sep + wn
RECURSIVE JoinWith(_, _)
JoinWith(ws, sep) ==
  IF ws = <<>> THEN <<>>
  ELSE IF Len(ws) = 1 THEN ws[1]
  ELSE ws[1] \o <<sep>> \o JoinWith(Tail(ws), sep)

\* C13: the title of an identifier has one space before every internal
\* uppercase letter, every character in its own case, and no leading or
\* trailing space; for words w0..wn it is w0 w1 ... wn joined by spaces, so
\* SgTaxCalculator gives "Sg Tax Calculator" and CircleImageCropper gives
\* "Circle Image Cropper".
C13_TitleOfIdentifier ==
  (tpc = "titled" /\ IsIdentifier(nameA)) =>
    /\ titleA = SeparateInternal(nameA, " ")
    /\ RemoveChar(titleA, " ") = nameA
    /\ titleA[1] # " " /\ titleA[Len(titleA)] # " "
    /\ IsPascalCase(nameA) => titleA = JoinWith(SplitWords(nameA), " ")
    /\ nameA = SgTaxCalculator =>
         titleA = <<"S","g"," ","T","a","x"," ",
                    "C","a","l","c","u","l","a","t","o","r">>
    /\ nameA = CircleImageCropper =>
         titleA = <<"C","i","r","c","l","e"," ","I","m","a","g","e"," ",
                    "C","r","o","p","p","e","r">>

\* the title of a three-word identifier has been computed
C13_Witness ==
  /\ tpc = "titled"
  /\ nameA = SgTaxCalculator
  /\ CountChar(titleA, " ") = 2

\* C14: the slug of a single-word identifier is the identifier lowercased,
\* without any hyphen; the slug of a PascalCase identifier neither starts
\* nor ends with a hyphen and has no two hyphens in a row.
C14_NoStrayHyphen ==
  (npc = "slugged" /\ IsPascalCase(nameA)) =>
    /\ slugA # <<>>
    /\ slugA[1] # "-"
    /\ slugA[Len(slugA)] # "-"
    /\ \A i \in 1..(Len(slugA) - 1) : ~(slugA[i] = "-" /\ slugA[i + 1] = "-")
    /\ Len(SplitWords(nameA)) = 1 =>
         /\ slugA = toLowerCase(nameA)
         /\ CountChar(slugA, "-") = 0

\* a single-word identifier has been slugged
C14_Witness ==
  /\ npc = "slugged"
  /\ nameA = <<"A","a","1">>
  /\ Len(SplitWords(nameA)) = 1
  /\ slugA = <<"a","a","1">>

\* C15: in the slug of an identifier that starts with an uppercase letter
\* every uppercase letter starts a segment: the slug has one hyphen less
\* than the identifier has uppercase letters, so HTTPClient gives
\* h-t-t-p-client.
C15_OneSegmentPerCapital ==
  (npc = "slugged" /\ IsIdentifier(nameA) /\ IsUpper(nameA[1])) =>
    /\ CountChar(slugA, "-") = CountUpper(nameA) - 1
    /\ nameA = HTTPClient =>
         slugA = <<"h","-","t","-","t","-","p","-",
                   "c","l","i","e","n","t">>

\* an identifier with four capitals in a row has been slugged
C15_Witness ==
  /\ npc = "slugged"
  /\ nameA = HTTPClient
  /\ CountChar(slugA, "-") = 4

\* C19: the slug the page generator computes inline for a component name is
\* the one toKebabCase computes, for every string.
C19_SameFunction ==
  npc = "slugged" =>
    /\ slugA = pageNameOf(nameA)
    /\ slugB = pageNameOf(nameB)

\* a string that is no identifier has been slugged
C19_Witness ==
  /\ npc = "slugged"
  /\ nameA = <<"A","B",".","t","s","x">>
  /\ slugA = <<"a","-","b",".","t","s","x">>
  /\ pageNameOf(nameA) = slugA

(***************************************************************************)
(* Properties of the page generator (checked under Spec)                   *)
(***************************************************************************)
\* the entries of the tools directory whose name ends in the widget suffix
WidgetFiles == filterTsx(toolsDir)

\* the file name with the trailing widget suffix stripped, nothing else
stripSuffix(file) == SubSeq(file, 1, Len(file) - Len(DotTsx))

Range(f) == {f[i] : i \in DOMAIN f}

\* the content of the last of the first n writes of this run that went to p
LastWritten(p, n) ==
  LET last == CHOOSE j \in 1..n :
                /\ pathOfFile(files[j]) = p
                /\ \A k \in (j + 1)..n : pathOfFile(files[k]) # p
  IN  pageContentOf(componentNameOf(files[last]))

\* C3: a run writes exactly one page per entry ending in .tsx and none for
\* any other entry, so that n widget files give n output files (three give
\* three), and the page of each widget imports the layout, imports that
\* widget and mounts it with client:load, whatever the other files are.
C3_OnePagePerWidget ==
  status = "done" =>
    /\ Len(written) = Len(WidgetFiles)
    /\ Cardinality(Range(written)) = Len(WidgetFiles)
    /\ \A i \in 1..Len(WidgetFiles) :
         /\ pathOfFile(WidgetFiles[i]) \in DOMAIN pagesDir
         /\ pagesDir[pathOfFile(WidgetFiles[i])]
              = pageContentOf(componentNameOf(WidgetFiles[i]))

\* C4: a second run over the unchanged tools directory, started from the
\* pages directory as the first completed run left it, leaves the pages
\* directory with the same files and the same contents.
C4_Idempotent ==
  (status = "done" /\ basis = "clean") => pagesDir = prevOut

\* a second run has completed after a first one that wrote two pages
C4_Witness ==
  /\ status = "done"
  /\ basis = "clean"
  /\ runs = 2
  /\ Len(written) >= 2
  /\ Cardinality(DOMAIN pagesDir) >= 2

\* positions i < j of files whose pages go to the same path, j the last one
Collide(i, j) ==
  /\ i < j
  /\ pathOfFile(files[i]) = pathOfFile(files[j])
  /\ componentNameOf(files[i]) # componentNameOf(files[j])
  /\ \A k \in (j + 1)..Len(files) : pathOfFile(files[k]) # pathOfFile(files[j])

\* C5: when two widget files of a run have the same slug, no error is raised
\* (a run ends early only by a filesystem exception, and otherwise exits
\* with status 0); after the run the one file at that slug holds the page of
\* the file processed second, not that of the first, and a success notice
\* was logged for both.
C5_CollisionOverwrites ==
  /\ status = "aborted" => fault # "none"
  /\ status = "done" =>
       \A i, j \in 1..Len(files) :
         Collide(i, j) =>
           /\ exitCode = 0
           /\ pagesDir[pathOfFile(files[j])]
                = pageContentOf(componentNameOf(files[j]))
           /\ pagesDir[pathOfFile(files[j])]
                # pageContentOf(componentNameOf(files[i]))
           /\ console[i] = noticeOf(pageNameOf(componentNameOf(files[i])))
           /\ console[j] = noticeOf(pageNameOf(componentNameOf(files[j])))

\* a run over two colliding widget files has completed
C5_Witness ==
  /\ status = "done"
  /\ \E i, j \in 1..Len(files) : Collide(i, j)

\* C6: when writeFileSync throws for the k-th widget file the run ends
\* there with a non-zero status: the writes for files 1..k-1 have been made
\* and are not undone (every file but the one being written is as those
\* writes left it), no later write is made, and the console holds the
\* notices of files 1..k-1 only: no notice for k, no summary.
C6_WriteFailureAborts ==
  fault = "write" =>
    /\ status = "aborted"
    /\ exitCode = 1
    /\ idx <= Len(files)
    /\ Len(written) = idx - 1
    /\ \A j \in 1..(idx - 1) : written[j] = pathOfFile(files[j])
    /\ Len(console) = idx - 1
    /\ \A j \in 1..(idx - 1) :
         console[j] = noticeOf(pageNameOf(componentNameOf(files[j])))
    /\ \A j \in 1..(idx - 1) : pathOfFile(files[j]) \in DOMAIN pagesDir
    /\ \A p \in (DOMAIN pagesAtStart \cup DOMAIN pagesDir)
                  \ {pathOfFile(files[idx])} :
         IF \E j \in 1..(idx - 1) : pathOfFile(files[j]) = p
           THEN pagesDir[p] = LastWritten(p, idx - 1)
           ELSE /\ p \in DOMAIN pagesAtStart
                /\ p \in DOMAIN pagesDir
                /\ pagesDir[p] = pagesAtStart[p]

\* the write for the second of three widget files has thrown
C6_Witness ==
  /\ fault = "write"
  /\ status = "aborted"
  /\ idx = 2
  /\ Len(files) = 3
  /\ written = <<pathOfFile(files[1])>>
  /\ pagesDir # pagesAtStart

\* C7: when readdirSync throws the run ends before any write: the pages
\* directory is as it was, and nothing is logged.
C7_ReadFailureAborts ==
  fault = "readdir" =>
    /\ status = "aborted"
    /\ exitCode = 1
    /\ pagesDir = pagesAtStart
    /\ written = <<>>
    /\ console = <<>>

\* readdirSync has thrown in a run over a pages directory that holds files
C7_Witness ==
  /\ fault = "readdir"
  /\ status = "aborted"
  /\ pagesDir = PreExistingDir

\* the pages a run over the current tools directory may write
WidgetPaths == {pathOfFile(WidgetFiles[i]) : i \in 1..Len(WidgetFiles)}

\* C8: during and after a run, every file of the pages directory other than
\* the pages <slug>.astro of the current widget files is exactly as it was
\* when the run started: none is deleted, none is changed, none is added.
C8_OtherFilesUntouched ==
  status \in {"running", "done", "aborted"} =>
    \A p \in (DOMAIN pagesAtStart \cup DOMAIN pagesDir) \ WidgetPaths :
      /\ p \in DOMAIN pagesAtStart
      /\ p \in DOMAIN pagesDir
      /\ pagesDir[p] = pagesAtStart[p]

\* a run has written pages and the stale page is still there, unchanged,
\* while the page at a current slug was replaced
C8_Witness ==
  /\ status = "done"
  /\ written # <<>>
  /\ StalePath \in DOMAIN pagesDir
  /\ StalePath \notin WidgetPaths
  /\ pagesDir[StalePath] = StaleContent
  /\ EditedPath \in WidgetPaths
  /\ pagesDir[EditedPath] # EditedContent

\* C9: after a completed run, deleting any of the generated pages and
\* running again over the unchanged tools directory brings every deleted
\* page back with the content it had.
C9_Regenerates ==
  (status = "done" /\ basis = "deleted") => pagesDir = prevOut

\* a run has completed after one of two generated pages was deleted
C9_Witness ==
  /\ status = "done"
  /\ basis = "deleted"
  /\ Cardinality(DOMAIN prevOut \ DOMAIN pagesAtStart) = 1
  /\ Cardinality(WidgetPaths) >= 2
  /\ pagesDir = prevOut

\* C10: the identifier used for the page of a widget file is the file name
\* with the trailing .tsx stripped and nothing else removed.
C10_SuffixStripped ==
  \A i \in 1..Len(written) :
    /\ componentNameOf(files[i]) = stripSuffix(files[i])
    /\ written[i] = pagePathOf(pageNameOf(stripSuffix(files[i])))

\* the notices among the first n console lines
Notices(n) == {i \in 1..n : console[i].kind = "notice"}

\* C17: a run that completes logs one notice per page written, the i-th
\* notice naming the i-th file written and logged before the next write
\* (while the loop runs there are as many notices as writes), and then one
\* summary, the last line, whose count is the number of notices.
C17_NoticesThenSummary ==
  /\ status = "running" =>
       /\ Len(written) = idx - 1
       /\ Len(console) = Len(written)
       /\ \A i \in 1..Len(console) :
            console[i] = [kind |-> "notice", file |-> written[i]]
  /\ status = "done" =>
       /\ Len(written) = Len(files)
       /\ Len(console) = Len(written) + 1
       /\ \A i \in 1..Len(written) :
            console[i] = [kind |-> "notice", file |-> written[i]]
       /\ console[Len(console)].kind = "summary"
       /\ console[Len(console)].count = Cardinality(Notices(Len(console)))

\* a run over two widget files and an entry that is no widget has completed
C17_Witness ==
  /\ status = "done"
  /\ Len(toolsDir) = 3
  /\ Len(files) = 2
  /\ Cardinality(Notices(Len(console))) = 2
  /\ console[3] = summaryOf(2)

\* C18: a run ends with a non-zero exit status exactly when readdirSync or
\* a writeFileSync threw; a run in which nothing throws ends with status 0,
\* also over no widget file and over widget files of the same slug.
C18_ExitStatus ==
  /\ status \in {"done", "aborted"} => (exitCode # 0 <=> fault # "none")
  /\ (status = "running" /\ idx > Len(files)) => fault = "none"
  /\ status = "done" => exitCode = 0

\* a run over a directory without any widget file has ended with status 0
C18_Witness ==
  /\ status = "done"
  /\ toolsDir = <<EfTsxBak>>
  /\ files = <<>>
  /\ exitCode = 0

(***************************************************************************)
(* The image cropper (src/tools/CircleImageCropper.tsx).  Each handler is  *)
(* one step on the state of the component: it reads image, crop,           *)
(* isDragging and dragStart as they are after the previous handler, and    *)
(* its setState calls take effect together.                                *)
(***************************************************************************)
\* the least value of the crop size slider
SliderMin == 100
\* the number of loads under way at one time
MaxPending == 2

\* the image files at hand, by the size of the image they hold.  The longer
\* side of each is 150, so that the canvas scale is the whole number 4, and
\* the two sides differ by an even number, so that the centred crop has whole
\* coordinates; the third is smaller than the least slider value
LandscapeImage == [width |-> 150, height |-> 102]
PortraitImage == [width |-> 102, height |-> 150]
SmallImage == [width |-> 150, height |-> 60]
Images == {LandscapeImage, PortraitImage, SmallImage}

\* the mouse positions e.clientX - rect.left and e.clientY - rect.top tried,
\* all multiples of the scale so that the division in handleMouseMove is exact
MousePositions == {0, 400}

Min(a, b) == IF a <= b THEN a ELSE b
Max(a, b) == IF a >= b THEN a ELSE b

\* Math.min(600 / image.width, 600 / image.height)
scaleOf(img) == Min(CanvasMax \div img.width, CanvasMax \div img.height)

\* canvas.width and canvas.height as drawCanvas sets them
canvasWidth(img) == img.width * scaleOf(img)
canvasHeight(img) == img.height * scaleOf(img)

\* scaledCrop of handleMouseDown
scaledCropOf(c, img) ==
  [x |-> c.x * scaleOf(img), y |-> c.y * scaleOf(img),
   size |-> c.size * scaleOf(img)]

\* the crop that img.onload sets: the largest square, centred
centredCrop(img) ==
  LET minDimension == Min(img.width, img.height)
  IN  [x |-> (img.width - minDimension) \div 2,
       y |-> (img.height - minDimension) \div 2,
       size |-> minDimension]

\* Math.max(0, Math.min(v, limit)) with a fault: the value is not bounded
clampNone(v, limit) == v

\* Math.max(0, Math.min(v, limit))
clamp(v, limit) == Max(0, Min(v, limit))

Pending == BagCardinality(reading) + BagCardinality(decoding)

InitCrop ==
  /\ NamesIdle
  /\ GenIdle
  /\ CropIdle
  /\ EinIdle
  /\ FlopsIdle
  /\ TaxIdle

\* loadImage: a FileReader is started on the file
loadImage(file) ==
  /\ reading' = reading (+) SetToBag({file})

\* handleFileSelect: the first file of the input is loaded
HandleFileSelect(file) ==
  /\ Pending < MaxPending
  /\ loadImage(file)
  /\ UNCHANGED <<image, crop, isDragging, dragStart, decoding, nameVars,
                 genVars, widgetVars>>

\* handlePaste: every image item of the clipboard is loaded
HandlePaste(items) ==
  /\ items # {}
  /\ Pending + Cardinality(items) <= MaxPending
  /\ reading' = reading (+) SetToBag(items)
  /\ UNCHANGED <<image, crop, isDragging, dragStart, decoding, nameVars,
                 genVars, widgetVars>>

\* reader.onload: the data URL is handed to a new Image
ReaderOnload(file) ==
  /\ BagIn(file, reading)
  /\ reading' = reading (-) SetToBag({file})
  /\ decoding' = decoding (+) SetToBag({file})
  /\ UNCHANGED <<image, crop, isDragging, dragStart, nameVars, genVars, widgetVars>>

\* img.onload: the image is displayed and the crop centred on it
ImgOnload(img) ==
  /\ BagIn(img, decoding)
  /\ decoding' = decoding (-) SetToBag({img})
  /\ image' = img
  /\ crop' = centredCrop(img)
  /\ UNCHANGED <<isDragging, dragStart, reading, nameVars, genVars, widgetVars>>

\* the positions a mouse event on the canvas can carry
MouseXs == {mx \in MousePositions : mx <= canvasWidth(image)}
MouseYs == {my \in MousePositions : my <= canvasHeight(image)}

\* whether the position is in the displayed crop square, borders included
InsideCrop(mx, my) ==
  LET scaledCrop == scaledCropOf(crop, image)
  IN  /\ mx >= scaledCrop.x
      /\ mx <= scaledCrop.x + scaledCrop.size
      /\ my >= scaledCrop.y
      /\ my <= scaledCrop.y + scaledCrop.size

\* handleMouseDown: a press inside the crop square starts a drag and records
\* where in the square it took hold; a press elsewhere changes nothing.  The
\* canvas exists only while an image is displayed
HandleMouseDown(mx, my) ==
  /\ image # null
  /\ mx \in MouseXs /\ my \in MouseYs
  /\ IF InsideCrop(mx, my)
       THEN /\ isDragging' = TRUE
            /\ dragStart' = [x |-> mx - scaledCropOf(crop, image).x,
                             y |-> my - scaledCropOf(crop, image).y]
       ELSE UNCHANGED <<isDragging, dragStart>>
  /\ UNCHANGED <<image, crop, reading, decoding, nameVars, genVars, widgetVars>>

\* handleMouseMove with a fault: isDragging is not looked at
HandleMouseMoveAlways(mx, my) ==
  /\ image # null
  /\ mx \in MouseXs /\ my \in MouseYs
  /\ LET x == (mx - dragStart.x) \div scaleOf(image)
         y == (my - dragStart.y) \div scaleOf(image)
         newX == clamp(x, image.width - crop.size)
         newY == clamp(y, image.height - crop.size)
     IN  crop' = [crop EXCEPT !.x = newX, !.y = newY]
  /\ UNCHANGED <<image, isDragging, dragStart, reading, decoding, nameVars,
                 genVars, widgetVars>>

\* handleMouseMove: while dragging, the crop square follows the mouse and is
\* kept inside the image; crop.size is copied
HandleMouseMove(mx, my) ==
  /\ image # null
  /\ mx \in MouseXs /\ my \in MouseYs
  /\ IF isDragging
       THEN LET x == (mx - dragStart.x) \div scaleOf(image)
                y == (my - dragStart.y) \div scaleOf(image)
                newX == clamp(x, image.width - crop.size)
                newY == clamp(y, image.height - crop.size)
            IN  crop' = [crop EXCEPT !.x = newX, !.y = newY]
       ELSE UNCHANGED crop
  /\ UNCHANGED <<image, isDragging, dragStart, reading, decoding, nameVars,
                 genVars, widgetVars>>

\* handleMouseUp as onMouseUp
HandleMouseUp ==
  /\ image # null
  /\ isDragging' = FALSE
  /\ UNCHANGED <<image, crop, dragStart, reading, decoding, nameVars, genVars, widgetVars>>

\* handleMouseUp as onMouseLeave
HandleMouseLeave ==
  /\ image # null
  /\ isDragging' = FALSE
  /\ UNCHANGED <<image, crop, dragStart, reading, decoding, nameVars, genVars, widgetVars>>

\* the values the slider can report: min to max in steps of one
SliderValues == SliderMin .. Min(image.width, image.height)

\* onValueChange of the slider: the size is set and the position pulled back
\* into the image
SliderChange(newSize) ==
  /\ image # null
  /\ newSize \in SliderValues
  /\ crop' = [size |-> newSize,
              x |-> clamp(crop.x, image.width - newSize),
              y |-> clamp(crop.y, image.height - newSize)]
  /\ UNCHANGED <<image, isDragging, dragStart, reading, decoding, nameVars,
                 genVars, widgetVars>>

NextCrop ==
  \/ \E file \in Images : HandleFileSelect(file)
  \/ \E items \in SUBSET Images : HandlePaste(items)
  \/ \E file \in Images : ReaderOnload(file)
  \/ \E img \in Images : ImgOnload(img)
  \/ \E mx \in MousePositions, my \in MousePositions : HandleMouseDown(mx, my)
  \/ \E mx \in MousePositions, my \in MousePositions : HandleMouseMove(mx, my)
  \/ HandleMouseUp
  \/ HandleMouseLeave
  \/ \E newSize \in SliderMin .. SliderMin + 2 : SliderChange(newSize)

SpecCrop == InitCrop /\ [][NextCrop]_vars

MouseDownStep == \E mx \in MousePositions, my \in MousePositions :
                   HandleMouseDown(mx, my)
MouseDownInsideStep == \E mx \in MousePositions, my \in MousePositions :
                         HandleMouseDown(mx, my) /\ InsideCrop(mx, my)
MouseMoveStep == \E mx \in MousePositions, my \in MousePositions :
                   HandleMouseMove(mx, my)

\* C21: isDragging becomes true only by a mouse down inside the displayed crop
\* square while an image is displayed; it is false after every mouse up and
\* every mouse leave; a mouse move changes crop only while isDragging is
\* true, and then leaves crop.size as it was
C21_DragProtocolStep ==
  /\ (~isDragging /\ isDragging') => (image # null /\ MouseDownInsideStep)
  /\ isDragging' => ~(HandleMouseUp \/ HandleMouseLeave)
  /\ (crop' # crop /\ MouseMoveStep) =>
       (isDragging /\ crop'.size = crop.size)

C21_DragProtocol == [][C21_DragProtocolStep]_vars

\* a drag is under way and has moved the square off the centre of the image
\* without changing its size
C21_Witness ==
  /\ image # null
  /\ isDragging
  /\ crop.size = centredCrop(image).size
  /\ crop.size < image.width
  /\ crop.x # centredCrop(image).x

(***************************************************************************)
(* The einops visualizer (EinopsViz).  The pattern and the reduction type  *)
(* only reach the text of the Python program, whose outcome is open here,  *)
(* so they are left out of the state.                                      *)
(***************************************************************************)
\* Number(token) is NaN; no token of the texts below denotes a negative number
NaN == -1

DigitValue == [c \in Digits |->
  CHOOSE n \in 0..9 : <<"0","1","2","3","4","5","6","7","8","9">>[n + 1] = c]

\* Number(token) for a token of digits and letters: "" is 0, a run of digits
\* is its decimal value, anything else is NaN
RECURSIVE NumberOf(_)
NumberOf(token) ==
  IF token = <<>> THEN 0
  ELSE IF token[Len(token)] \notin Digits THEN NaN
  ELSE LET rest == NumberOf(SubSeq(token, 1, Len(token) - 1))
       IN  IF rest = NaN THEN NaN
           ELSE 10 * rest + DigitValue[token[Len(token)]]

\* the position of the first character of s at or after i that is (when
\* wanted) or is not (when not wanted) the character c; Len(s) + 1 if none
RECURSIVE scan(_, _, _, _)
scan(s, i, c, wanted) ==
  IF i > Len(s) THEN Len(s) + 1
  ELSE IF (s[i] = c) = wanted THEN i
  ELSE scan(s, i + 1, c, wanted)

\* s.split(/\s+/): the pieces between runs of spaces
RECURSIVE splitSpaces(_)
splitSpaces(s) ==
  LET i == scan(s, 1, " ", TRUE)
  IN  IF i > Len(s) THEN <<s>>
      ELSE <<SubSeq(s, 1, i - 1)>>
             \o splitSpaces(SubSeq(s, scan(s, i, " ", FALSE), Len(s)))

\* s.split(c) for a single character c
RECURSIVE splitOn(_, _)
splitOn(s, c) ==
  LET i == scan(s, 1, c, TRUE)
  IN  IF i > Len(s) THEN <<s>>
      ELSE <<SubSeq(s, 1, i - 1)>> \o splitOn(SubSeq(s, i + 1, Len(s)), c)

\* text.trim().split(/\s+/).map(Number)
parseShape(text) ==
  LET tokens == splitSpaces(trim(text))
  IN  [k \in 1..Len(tokens) |-> NumberOf(tokens[k])]

\* shape.some(Number.isNaN) || shape.length === 0
invalidShape(shape) ==
  (\E k \in 1..Len(shape) : shape[k] = NaN) \/ Len(shape) = 0

\* whether building paramsDict throws: an entry without "=" leaves v
\* undefined, and v.trim() is a TypeError
paramsThrow(text) ==
  /\ trim(text) # <<>>
  /\ \E k \in 1..Len(splitOn(text, ",")) :
       Len(splitOn(trim(splitOn(text, ",")[k]), "=")) < 2

Operations == {"rearrange", "repeat", "reduce", "einsum"}

\* the texts tried in the two shape fields and in the parameters field
ShapeTexts == {<<"2", " ", "3">>, <<" ", "2", " ", " ", "3", " ">>,
               <<"2", " ", "x">>, <<>>}
Shape2Texts == {<<"3", " ", "2">>, <<"x">>}
ParamTexts == {<<>>, <<"c", "=", "2">>, <<"c", "=", "2", ",", "d">>}

\* useState(null) of result, and no call awaited
nullResult == [operation |-> "none", shape |-> <<>>, shape2 |-> <<>>,
               params |-> <<>>]
noCall == nullResult

\* the Python program that runOperation assembles, by what it is built from:
\* einsum takes the second shape and no parameters, the others the parameters
codeOf(op, text, text2, paramText) ==
  [operation |-> op,
   shape |-> parseShape(text),
   shape2 |-> IF op = "einsum" THEN parseShape(text2) ELSE <<>>,
   params |-> IF op = "einsum" THEN <<>> ELSE trim(paramText)]

\* err.message of the errors that can reach the catch block, and the text
\* shown for a thrown value that is no Error
TypeErrorMessage == "Cannot read properties of undefined (reading 'trim')"
PythonMessages == {"PythonError", "Error running operation"}

InitEin ==
  /\ NamesIdle
  /\ GenIdle
  /\ CropIdle
  /\ FlopsIdle
  /\ TaxIdle
  /\ pyodide = FALSE
  /\ loading = TRUE
  /\ operation = "rearrange"
  /\ inputShape = <<"2", " ", "3">>
  /\ inputShape2 = <<"3", " ", "2">>
  /\ params = <<>>
  /\ result = nullResult
  /\ error = ""
  /\ running = FALSE
  /\ call = noCall

\* script.onload: the environment and its packages were loaded
LoadSucceeds ==
  /\ loading
  /\ pyodide' = TRUE
  /\ loading' = FALSE
  /\ UNCHANGED <<operation, inputShape, inputShape2, params, result, error,
                 running, call, nameVars, genVars, cropVars, flopVars, taxVars>>

\* script.onload: loading the environment or a package threw
LoadFails ==
  /\ loading
  /\ error' = "Failed to load Python environment"
  /\ loading' = FALSE
  /\ UNCHANGED <<pyodide, operation, inputShape, inputShape2, params, result,
                 running, call, nameVars, genVars, cropVars, flopVars, taxVars>>

\* the operation buttons, disabled while loading
SetOperation(op) ==
  /\ ~loading
  /\ operation' = op
  /\ UNCHANGED <<pyodide, loading, inputShape, inputShape2, params, result,
                 error, running, call, nameVars, genVars, cropVars, flopVars, taxVars>>

\* the first shape field, disabled while loading
SetInputShape(text) ==
  /\ ~loading
  /\ inputShape' = text
  /\ UNCHANGED <<pyodide, loading, operation, inputShape2, params, result,
                 error, running, call, nameVars, genVars, cropVars, flopVars, taxVars>>

\* the second shape field, shown for einsum
SetInputShape2(text) ==
  /\ ~loading
  /\ operation = "einsum"
  /\ inputShape2' = text
  /\ UNCHANGED <<pyodide, loading, operation, inputShape, params, result,
                 error, running, call, nameVars, genVars, cropVars, flopVars, taxVars>>

\* the parameters field, shown for rearrange and repeat
SetParams(text) ==
  /\ ~loading
  /\ operation \in {"rearrange", "repeat"}
  /\ params' = text
  /\ UNCHANGED <<pyodide, loading, operation, inputShape, inputShape2, result,
                 error, running, call, nameVars, genVars, cropVars, flopVars, taxVars>>

\* loadExample: the fields are set from an example; the second shape only
\* if the example has one (hasShape2)
LoadExample(text, paramText, hasShape2, text2) ==
  /\ ~loading
  /\ inputShape' = text
  /\ params' = paramText
  /\ inputShape2' = IF hasShape2 THEN text2 ELSE inputShape2
  /\ UNCHANGED <<pyodide, loading, operation, result, error, running, call,
                 nameVars, genVars, cropVars, flopVars, taxVars>>

\* runOperation with a fault: the returns after an invalid shape leave
\* running as setRunning(true) set it
RunOperationLeavesRunning ==
  /\ ~loading /\ ~running
  /\ IF ~pyodide
       THEN /\ error' = "Python environment not ready"
            /\ UNCHANGED <<running, result, call>>
     ELSE IF invalidShape(parseShape(inputShape))
       THEN /\ error' = "Invalid input shape"
            /\ running' = TRUE
            /\ UNCHANGED <<result, call>>
     ELSE IF operation = "einsum" /\ invalidShape(parseShape(inputShape2))
       THEN /\ error' = "Invalid second tensor shape"
            /\ running' = TRUE
            /\ UNCHANGED <<result, call>>
     ELSE IF operation # "einsum" /\ paramsThrow(params)
       THEN /\ error' = TypeErrorMessage
            /\ result' = nullResult
            /\ running' = FALSE
            /\ UNCHANGED call
     ELSE /\ error' = ""
          /\ running' = TRUE
          /\ call' = codeOf(operation, inputShape, inputShape2, params)
          /\ UNCHANGED result
  /\ UNCHANGED <<pyodide, loading, operation, inputShape, inputShape2, params,
                 nameVars, genVars, cropVars, flopVars, taxVars>>

\* runOperation, from the click on the Run button (disabled while loading or
\* running) to its first await or its return.  Without an environment it
\* only sets the error.  Otherwise running is set and the error cleared;
\* an invalid shape sets its message and returns, an exception while the
\* program text is built goes to the catch block, and both pass through
\* finally, so that running is false again when the handler returns; else
\* the Python call is started and awaited
RunOperation ==
  /\ ~loading /\ ~running
  /\ IF ~pyodide
       THEN /\ error' = "Python environment not ready"
            /\ UNCHANGED <<running, result, call>>
     ELSE IF invalidShape(parseShape(inputShape))
       THEN /\ error' = "Invalid input shape"
            /\ running' = FALSE
            /\ UNCHANGED <<result, call>>
     ELSE IF operation = "einsum" /\ invalidShape(parseShape(inputShape2))
       THEN /\ error' = "Invalid second tensor shape"
            /\ running' = FALSE
            /\ UNCHANGED <<result, call>>
     ELSE IF operation # "einsum" /\ paramsThrow(params)
       THEN /\ error' = TypeErrorMessage
            /\ result' = nullResult
            /\ running' = FALSE
            /\ UNCHANGED call
     ELSE /\ error' = ""
          /\ running' = TRUE
          /\ call' = codeOf(operation, inputShape, inputShape2, params)
          /\ UNCHANGED result
  /\ UNCHANGED <<pyodide, loading, operation, inputShape, inputShape2, params,
                 nameVars, genVars, cropVars, flopVars, taxVars>>

\* the awaited call with a fault: the catch block keeps the result
PythonThrowsKeepsResult(message) ==
  /\ call # noCall
  /\ error' = message
  /\ running' = FALSE
  /\ call' = noCall
  /\ UNCHANGED <<result, pyodide, loading, operation, inputShape, inputShape2,
                 params, nameVars, genVars, cropVars, flopVars, taxVars>>

\* the awaited call resolves: setResult with what Python returned for the
\* program of this call, then finally
PythonResolves ==
  /\ call # noCall
  /\ result' = call
  /\ running' = FALSE
  /\ call' = noCall
  /\ UNCHANGED <<error, pyodide, loading, operation, inputShape, inputShape2,
                 params, nameVars, genVars, cropVars, flopVars, taxVars>>

\* the awaited call (or the conversion of its value) throws: the catch block
\* sets the error and clears the result, then finally
PythonThrows(message) ==
  /\ call # noCall
  /\ error' = message
  /\ result' = nullResult
  /\ running' = FALSE
  /\ call' = noCall
  /\ UNCHANGED <<pyodide, loading, operation, inputShape, inputShape2, params,
                 nameVars, genVars, cropVars, flopVars, taxVars>>

NextEin ==
  \/ LoadSucceeds
  \/ LoadFails
  \/ \E op \in Operations : SetOperation(op)
  \/ \E text \in ShapeTexts : SetInputShape(text)
  \/ \E text \in Shape2Texts : SetInputShape2(text)
  \/ \E text \in ParamTexts : SetParams(text)
  \/ \E paramText \in {<<>>, <<"c", "=", "2">>}, hasShape2 \in BOOLEAN :
       LoadExample(<<"2", " ", "3">>, paramText, hasShape2, <<"3", " ", "2">>)
  \/ RunOperation
  \/ PythonResolves
  \/ \E message \in PythonMessages : PythonThrows(message)

SpecEin == InitEin /\ [][NextEin]_vars

\* C22: a run started without a Python environment sets the error 'Python
\* environment not ready' and leaves running false; running is true only
\* while a Python call is awaited, so every return of runOperation and every
\* settling of the call leaves running false
C22_RunningStep ==
  /\ (~pyodide /\ RunOperation) =>
       (error' = "Python environment not ready" /\ ~running /\ ~running')
  /\ running' => ~(PythonResolves \/ \E message \in PythonMessages :
                                        PythonThrows(message))

C22_RunFlag == [](running => call # noCall) /\ [][C22_RunningStep]_vars

\* the environment failed to load and a run was asked for
C22_Witness ==
  /\ ~pyodide /\ ~loading /\ ~running
  /\ error = "Python environment not ready"

\* C23: with the environment loaded, a run with a non-numeric entry in the
\* first shape, or for einsum in the second shape, sets the message of that
\* shape, starts no Python call and keeps the result; when the Python call
\* throws, the error is the message of the exception and the result is null;
\* when it resolves, the result is the one of this call and the error is empty
C23_OutcomeStep ==
  /\ (pyodide /\ RunOperation) =>
       /\ invalidShape(parseShape(inputShape)) =>
            (error' = "Invalid input shape" /\ call' = noCall
               /\ result' = result)
       /\ (/\ ~invalidShape(parseShape(inputShape))
           /\ operation = "einsum"
           /\ invalidShape(parseShape(inputShape2))) =>
            (error' = "Invalid second tensor shape" /\ call' = noCall
               /\ result' = result)
  /\ \A message \in PythonMessages :
       (call # noCall /\ PythonThrows(message)) =>
         (error' = message /\ result' = nullResult)
  /\ (call # noCall /\ PythonResolves) => (result' = call /\ error' = "")

LimbBase == 1000

RECURSIVE bigOf(_)
bigOf(n) == IF n = 0 THEN <<>> ELSE <<n % LimbBase>> \o bigOf(n \div LimbBase)

RECURSIVE bigAddCarry(_, _, _)
bigAddCarry(a, b, carry) ==
  IF a = <<>> /\ b = <<>>
    THEN IF carry = 0 THEN <<>> ELSE <<carry>>
    ELSE LET x == (IF a = <<>> THEN 0 ELSE a[1])
                    + (IF b = <<>> THEN 0 ELSE b[1]) + carry
         IN  <<x % LimbBase>>
               \o bigAddCarry(IF a = <<>> THEN <<>> ELSE Tail(a),
                              IF b = <<>> THEN <<>> ELSE Tail(b),
                              x \div LimbBase)

bigAdd(a, b) == bigAddCarry(a, b, 0)

\* a times the single digit k > 0
RECURSIVE bigMulLimb(_, _, _)
bigMulLimb(a, k, carry) ==
  IF a = <<>>
    THEN IF carry = 0 THEN <<>> ELSE <<carry>>
    ELSE LET x == a[1] * k + carry
         IN  <<x % LimbBase>> \o bigMulLimb(Tail(a), k, x \div LimbBase)

RECURSIVE bigMul(_, _)
bigMul(a, b) ==
  IF a = <<>> \/ b = <<>> THEN <<>>
  ELSE LET rest == bigMul(a, Tail(b))
       IN  bigAdd(IF b[1] = 0 THEN <<>> ELSE bigMulLimb(a, b[1], 0),
                  IF rest = <<>> THEN <<>> ELSE <<0>> \o rest)

\* JavaScript numbers that are not negative
jsNum(n) == [k |-> "num", v |-> bigOf(n)]
jsNaN == [k |-> "nan", v |-> <<>>]
jsInfinity == [k |-> "inf", v |-> <<>>]

\* a field of the config as a JavaScript number
jsOf(field) == IF field = NaN THEN jsNaN ELSE jsNum(field)

\* x * y
jsMul(x, y) ==
  IF x.k = "nan" \/ y.k = "nan" THEN jsNaN
  ELSE IF x.k = "inf" \/ y.k = "inf"
    THEN IF (x.k = "num" /\ x.v = <<>>) \/ (y.k = "num" /\ y.v = <<>>)
           THEN jsNaN ELSE jsInfinity
  ELSE [k |-> "num", v |-> bigMul(x.v, y.v)]

\* x + y
jsAdd(x, y) ==
  IF x.k = "nan" \/ y.k = "nan" THEN jsNaN
  ELSE IF x.k = "inf" \/ y.k = "inf" THEN jsInfinity
  ELSE [k |-> "num", v |-> bigAdd(x.v, y.v)]

\* d_model / num_heads for two fields: NaN if either is, 0 / 0 is NaN,
\* n / 0 is Infinity; the values tried are such that num_heads divides
\* d_model, so that the quotient is a whole number
jsDivFields(n, d) ==
  IF n = NaN \/ d = NaN THEN jsNaN
  ELSE IF d = 0 THEN (IF n = 0 THEN jsNaN ELSE jsInfinity)
  ELSE jsNum(n \div d)

ConfigKeys == {"vocab_size", "context_length", "num_layers", "d_model",
               "num_heads", "d_ff"}

PresetNames == {"GPT-2 Small", "GPT-2 Medium", "GPT-2 Large", "GPT-2 XL"}

PRESETS == [presetName \in PresetNames |->
  [vocab_size |-> 50257,
   context_length |-> 1024,
   num_layers |-> CASE presetName = "GPT-2 Small" -> 12
                    [] presetName = "GPT-2 Medium" -> 24
                    [] presetName = "GPT-2 Large" -> 36
                    [] presetName = "GPT-2 XL" -> 48,
   d_model |-> CASE presetName = "GPT-2 Small" -> 768
                 [] presetName = "GPT-2 Medium" -> 1024
                 [] presetName = "GPT-2 Large" -> 1280
                 [] presetName = "GPT-2 XL" -> 1600,
   num_heads |-> CASE presetName = "GPT-2 Small" -> 12
                   [] presetName = "GPT-2 Medium" -> 16
                   [] presetName = "GPT-2 Large" -> 20
                   [] presetName = "GPT-2 XL" -> 25,
   d_ff |-> CASE presetName = "GPT-2 Small" -> 3072
              [] presetName = "GPT-2 Medium" -> 4096
              [] presetName = "GPT-2 Large" -> 5120
              [] presetName = "GPT-2 XL" -> 6400]]

\* calculateFLOPs; a product a * b * c is ((a * b) * c) as in JavaScript
calculateFLOPs(cfg) ==
  LET vocab_size == jsOf(cfg.vocab_size)
      seq_len == jsOf(cfg.context_length)
      num_layers == jsOf(cfg.num_layers)
      d_model == jsOf(cfg.d_model)
      num_heads == jsOf(cfg.num_heads)
      d_ff == jsOf(cfg.d_ff)
      head_dim == jsDivFields(cfg.d_model, cfg.num_heads)
      qkv_projections ==
        jsMul(jsMul(jsMul(jsMul(jsNum(2), seq_len), d_model), d_model),
              jsNum(3))
      qk_attention ==
        jsMul(jsMul(jsMul(jsMul(jsNum(2), seq_len), head_dim), seq_len),
              num_heads)
      attention_v ==
        jsMul(jsMul(jsMul(jsMul(jsNum(2), seq_len), seq_len), head_dim),
              num_heads)
      output_projection ==
        jsMul(jsMul(jsMul(jsNum(2), seq_len), d_model), d_model)
      ffn ==
        jsAdd(jsMul(jsMul(jsMul(jsMul(jsNum(2), seq_len), d_model), d_ff),
                    jsNum(2)),
              jsMul(jsMul(jsMul(jsNum(2), seq_len), d_ff), d_model))
      total_per_block ==
        jsAdd(jsAdd(jsAdd(jsAdd(qkv_projections, qk_attention), attention_v),
                    output_projection), ffn)
      total_all_blocks == jsMul(total_per_block, num_layers)
      lm_head == jsMul(jsMul(jsMul(jsNum(2), seq_len), d_model), vocab_size)
      total == jsAdd(total_all_blocks, lm_head)
  IN  [qkv_projections |-> qkv_projections,
       qk_attention |-> qk_attention,
       attention_v |-> attention_v,
       output_projection |-> output_projection,
       ffn |-> ffn,
       total_per_block |-> total_per_block,
       total_all_blocks |-> total_all_blocks,
       lm_head |-> lm_head,
       total |-> total]

\* the number of updateConfig calls in one behaviour
MaxEdits == 2

\* the texts typed into a field: empty (Number gives 0), not a number, and
\* a number, chosen so that num_heads divides d_model whichever preset and
\* field values are combined
ValueTexts(key) ==
  {<<>>, <<"x">>,
   IF key = "d_model" THEN <<"1", "2", "0", "0">> ELSE <<"4">>}

InitFlops ==
  /\ NamesIdle
  /\ GenIdle
  /\ CropIdle
  /\ EinIdle
  /\ TaxIdle
  /\ config = PRESETS["GPT-2 Small"]
  /\ flopsResult = calculateFLOPs(PRESETS["GPT-2 Small"])
  /\ edits = 0

\* loadPreset with a fault: the preset replaces every field
LoadPresetWhole(presetName) ==
  /\ config' = PRESETS[presetName]
  /\ flopsResult' = calculateFLOPs(config')
  /\ UNCHANGED <<edits, taxVars, einVars, nameVars, genVars, cropVars>>

\* loadPreset, and the effect that follows the change of config
loadPreset(presetName) ==
  /\ config' = [PRESETS[presetName] EXCEPT
                  !.context_length = config.context_length]
  /\ flopsResult' = calculateFLOPs(config')
  /\ UNCHANGED <<edits, taxVars, einVars, nameVars, genVars, cropVars>>

\* updateConfig, and the effect that follows the change of config
updateConfig(key, value) ==
  /\ edits < MaxEdits
  /\ edits' = edits + 1
  /\ config' = [config EXCEPT ![key] = NumberOf(value)]
  /\ flopsResult' = calculateFLOPs(config')
  /\ UNCHANGED <<taxVars, einVars, nameVars, genVars, cropVars>>

NextFlops ==
  \/ \E presetName \in PresetNames : loadPreset(presetName)
  \/ \E key \in ConfigKeys : \E value \in ValueTexts(key) :
       updateConfig(key, value)

SpecFlops == InitFlops /\ [][NextFlops]_vars

\* C24: loadPreset(p) sets vocab_size, num_layers, d_model, num_heads and d_ff
\* to the values of preset p and keeps context_length; updateConfig(k, v)
\* changes no field but k; and the result shown is always calculateFLOPs of
\* the config, with total = total_per_block * num_layers + lm_head and
\* total_per_block the sum of the five parts of a block
C24_FrameStep ==
  /\ \A presetName \in PresetNames :
       loadPreset(presetName) =>
         /\ \A key \in ConfigKeys \ {"context_length"} :
              config'[key] = PRESETS[presetName][key]
         /\ config'.context_length = config.context_length
  /\ \A key \in ConfigKeys :
       (\E value \in ValueTexts(key) : updateConfig(key, value)) =>
         \A other \in ConfigKeys \ {key} : config'[other] = config[other]

C24_ResultShown ==
  /\ flopsResult = calculateFLOPs(config)
  /\ flopsResult.total =
       jsAdd(jsMul(flopsResult.total_per_block, jsOf(config.num_layers)),
             flopsResult.lm_head)
  /\ flopsResult.total_per_block =
       jsAdd(jsAdd(jsAdd(jsAdd(flopsResult.qkv_projections,
                               flopsResult.qk_attention),
                         flopsResult.attention_v),
                   flopsResult.output_projection),
             flopsResult.ffn)

C24_PresetAndUpdate == []C24_ResultShown /\ [][C24_FrameStep]_vars

\* the context length and one more field were edited and a preset loaded
\* over them: the preset's fields and the edited context length
C24_Witness ==
  /\ edits = 2
  /\ config.context_length = 4
  /\ config.num_layers = 48
  /\ config.d_model = 1600
  /\ config.num_heads = 25
  /\ flopsResult.total.k = "num"
  /\ flopsResult.total.v # <<>>

(***************************************************************************)
(* The tax calculator (calculateTax).  Its numbers are IEEE doubles: a     *)
(* value that is not negative is kept as [m, e], standing for m / 2^e with *)
(* m a whole number in digits, and every product and sum is rounded to 53  *)
(* significant bits, ties to even, as the machine does.                    *)
(***************************************************************************)
RECURSIVE bigPow2(_)
bigPow2(n) ==
  IF n = 0 THEN <<1>>
  ELSE LET half == bigPow2(n \div 2)
       IN  IF n % 2 = 0 THEN bigMul(half, half)
           ELSE bigMulLimb(bigMul(half, half), 2, 0)

\* the number of significant bits of a double
MantissaBits == 53
TwoToMantissa == bigPow2(MantissaBits)
HalfTwoToMantissa == bigPow2(MantissaBits - 1)

\* a < b, the digits compared from the highest down
RECURSIVE bigLessFrom(_, _, _)
bigLessFrom(a, b, i) ==
  IF i = 0 THEN FALSE
  ELSE IF a[i] # b[i] THEN a[i] < b[i]
  ELSE bigLessFrom(a, b, i - 1)

bigLess(a, b) ==
  IF Len(a) # Len(b) THEN Len(a) < Len(b) ELSE bigLessFrom(a, b, Len(a))

\* quotient and remainder of a by the small number k
RECURSIVE bigDivSmall(_, _)
bigDivSmall(a, k) ==
  IF a = <<>> THEN [q |-> <<>>, r |-> 0]
  ELSE LET high == bigDivSmall(Tail(a), k)
           cur == high.r * LimbBase + a[1]
       IN  [q |-> IF cur \div k = 0 /\ high.q = <<>> THEN <<>>
                  ELSE <<cur \div k>> \o high.q,
            r |-> cur % k]

bigOdd(a) == a # <<>> /\ a[1] % 2 = 1

\* how the bits dropped so far compare with half a unit of the last place
\* kept, once one more bit is dropped above them
nextDropped(dropped, bit) ==
  IF bit = 0 THEN (IF dropped = "zero" THEN "zero" ELSE "below")
  ELSE (IF dropped = "zero" THEN "half" ELSE "above")

\* q, followed by s dropped bits, rounded to MantissaBits bits, ties to even:
\* the result stands for m * 2^s
RECURSIVE roundBits(_, _, _)
roundBits(q, dropped, s) ==
  IF bigLess(q, TwoToMantissa)
    THEN [m |-> IF dropped = "above" \/ (dropped = "half" /\ bigOdd(q))
                  THEN bigAdd(q, <<1>>) ELSE q,
          s |-> s]
    ELSE LET d == bigDivSmall(q, 2)
         IN  roundBits(d.q, nextDropped(dropped, d.r), s + 1)

\* the same value with the least e: [m, e] in lowest terms; factors of two
\* are taken out ten at a time while that is possible
TenBits == 10
TwoToTen == 1024
RECURSIVE lowest(_)
lowest(x) ==
  IF x.m = <<>> THEN [m |-> <<>>, e |-> 0]
  ELSE IF x.e >= TenBits /\ bigDivSmall(x.m, TwoToTen).r = 0
    THEN lowest([m |-> bigDivSmall(x.m, TwoToTen).q, e |-> x.e - TenBits])
  ELSE IF x.e > 0 /\ ~bigOdd(x.m)
    THEN lowest([m |-> bigDivSmall(x.m, 2).q, e |-> x.e - 1])
  ELSE x

\* the double of a whole number below 2^53
doubleOf(n) == [m |-> bigOf(n), e |-> 0]

\* the double nearest to n / d for small whole numbers 0 < n < d: what a
\* decimal literal such as 0.035 (35 / 1000) denotes.  The numerator is
\* doubled until the quotient has MantissaBits bits, then the quotient is
\* rounded, ties to even
RECURSIVE doubleOfRatioFrom(_, _, _)
doubleOfRatioFrom(num, d, e) ==
  LET quot == bigDivSmall(num, d)
  IN  IF bigLess(quot.q, HalfTwoToMantissa)
        THEN doubleOfRatioFrom(bigAdd(num, num), d, e + 1)
        ELSE lowest([m |-> IF 2 * quot.r > d \/ (2 * quot.r = d /\ bigOdd(quot.q))
                             THEN bigAdd(quot.q, <<1>>) ELSE quot.q,
                     e |-> e])

\* a ratio below 1 needs the numerator doubled more than 50 times, so the
\* doubling starts there
FirstDoublings == 50
doubleOfRatio(n, d) ==
  IF n = 0 THEN doubleOf(0)
  ELSE doubleOfRatioFrom(bigMul(bigOf(n), bigPow2(FirstDoublings)), d,
                         FirstDoublings)

\* n * x in doubles, for a whole number n and a double x
doubleTimes(n, x) ==
  LET r == roundBits(bigMul(bigOf(n), x.m), "zero", 0)
  IN  lowest([m |-> r.m, e |-> x.e - r.s])

\* c + x in doubles, for a whole number c and a double x with x.e >= 0
doublePlus(c, x) ==
  LET r == roundBits(bigAdd(bigMul(bigOf(c), bigPow2(x.e)), x.m), "zero", 0)
  IN  lowest([m |-> r.m, e |-> x.e - r.s])

\* x <= y for doubles with x.e >= 0 and y.e >= 0
doubleLeq(x, y) ==
  ~bigLess(bigMul(y.m, bigPow2(x.e)), bigMul(x.m, bigPow2(y.e)))

\* taxBrackets; rate is given in thousandths, the double it denotes is
\* rateOf; the JavaScript index of taxBrackets[k] is k - 1
taxBrackets ==
  << [threshold |-> 0,       permille |-> 0,   cumulative |-> 0],
     [threshold |-> 20000,   permille |-> 20,  cumulative |-> 0],
     [threshold |-> 30000,   permille |-> 35,  cumulative |-> 200],
     [threshold |-> 40000,   permille |-> 70,  cumulative |-> 550],
     [threshold |-> 80000,   permille |-> 115, cumulative |-> 3350],
     [threshold |-> 120000,  permille |-> 150, cumulative |-> 7950],
     [threshold |-> 160000,  permille |-> 180, cumulative |-> 13950],
     [threshold |-> 200000,  permille |-> 190, cumulative |-> 21150],
     [threshold |-> 240000,  permille |-> 195, cumulative |-> 28750],
     [threshold |-> 280000,  permille |-> 200, cumulative |-> 36550],
     [threshold |-> 320000,  permille |-> 220, cumulative |-> 44550],
     [threshold |-> 500000,  permille |-> 230, cumulative |-> 84150],
     [threshold |-> 1000000, permille |-> 240, cumulative |-> 199150] >>

Thousand == 1000
rateOf == [k \in 1..Len(taxBrackets) |->
             doubleOfRatio(taxBrackets[k].permille, Thousand)]

\* the income up to which no tax is due
TaxFree == 20000

\* the for loop: from the last bracket down, the first whose threshold the
\* income exceeds; 0 if there is none.  i is the JavaScript index
RECURSIVE bracketFrom(_, _)
bracketFrom(amount, i) ==
  IF i < 0 THEN 0
  ELSE IF amount > taxBrackets[i + 1].threshold THEN i
  ELSE bracketFrom(amount, i - 1)

\* calculateTax for an income that is a whole number
calculateTax(amount) ==
  IF amount <= TaxFree
    THEN [tax |-> doubleOf(0), bracket |-> 0, rate |-> doubleOf(0)]
    ELSE LET bracket == bracketFrom(amount, Len(taxBrackets) - 1)
             currentBracket == taxBrackets[bracket + 1]
             excess == amount - currentBracket.threshold
         IN  [tax |-> doublePlus(currentBracket.cumulative,
                                 doubleTimes(excess, rateOf[bracket + 1])),
              bracket |-> bracket,
              rate |-> rateOf[bracket + 1]]

\* how far from a threshold the incomes tried lie
MaxDelta == 2

\* the incomes tried: every threshold and the whole numbers around it
Incomes ==
  {taxBrackets[k].threshold + delta :
     k \in 1..Len(taxBrackets), delta \in -MaxDelta..MaxDelta}

InitTax ==
  /\ NamesIdle
  /\ GenIdle
  /\ CropIdle
  /\ EinIdle
  /\ FlopsIdle
  /\ income \in Incomes
  /\ taxResult = <<>>
  /\ taxpc = "input"

\* the call calculateTax(income)
CalculateTax ==
  /\ taxpc = "input"
  /\ taxResult' = calculateTax(income)
  /\ taxpc' = "done"
  /\ UNCHANGED <<income, einVars, flopVars, nameVars, genVars, cropVars>>

NextTax == CalculateTax

SpecTax == InitTax /\ [][NextTax]_vars

\* the table is continuous in exact arithmetic: each cumulative amount is
\* the one before plus the width of the bracket before at its rate
TableContinuous ==
  \A k \in 2..Len(taxBrackets) :
    taxBrackets[k].cumulative * Thousand =
      taxBrackets[k - 1].cumulative * Thousand
        + (taxBrackets[k].threshold - taxBrackets[k - 1].threshold)
            * taxBrackets[k - 1].permille

\* C25: calculateTax returns tax 0 for every income up to 20000; the table
\* is continuous at every boundary, so that the tax at an income equal to a
\* threshold above 20000, computed from the bracket below, equals the
\* cumulative amount of the bracket that starts there; and the tax never
\* decreases as the income grows
C25_ContinuousAndMonotone ==
  taxpc = "done" =>
    /\ income <= TaxFree => taxResult.tax = doubleOf(0)
    /\ TableContinuous
    /\ \A k \in 3..Len(taxBrackets) :
         income = taxBrackets[k].threshold =>
           taxResult.tax = doubleOf(taxBrackets[k].cumulative)
    /\ \A other \in Incomes :
         other <= income => doubleLeq(calculateTax(other).tax, taxResult.tax)

====
